---- MODULE Spec2Model ----
(***************************************************************************)
(* State-machine model of CyberAttackSimulator (src/simulation_engine.py). *)
(*                                                                         *)
(* Numbers.  Risk scores, edge weights and the delay variation are kept in *)
(* tenths (0.9 -> 9, weight 2.0 -> 20, variation -0.3 -> -3), simulation   *)
(* times in milliseconds, random draws in hundredths.  Quotients that the  *)
(* code returns as floats (means, rates, scores) are kept as exact         *)
(* fractions [n |-> numerator, d |-> denominator]; float rounding is not   *)
(* modelled.                                                               *)
(***************************************************************************)
EXTENDS Integers, Sequences, FiniteSets, TLC

VARIABLES network_config, graph, device_states, attack_timeline,
          pc, entry_points, idx, attack_queue, propagation_steps,
          current, neighbors, results, error, callback, log,
          calls, enqueued, dequeued, draws,
          tape, seeded, stream, now, heap, results_gen, first, call_no, description,
          other

vars == <<network_config, graph, device_states, attack_timeline,
          pc, entry_points, idx, attack_queue, propagation_steps,
          current, neighbors, results, error, callback, log,
          calls, enqueued, dequeued, draws,
          tape, seeded, stream, now, heap, results_gen, first, call_no, description,
          other>>

\* the random source (seeded or not, and what a seeded source will return), and
\* what the caller keeps of its first call together with the thread that is not
\* running
rng_vars == <<seeded, stream>>
caller_vars == <<first, call_no, description, other>>

(***************************************************************************)
(* Bounds of the model and the input domains.                              *)
(***************************************************************************)
MaxEntries == 2

Names == {"A", "B", "C"}
DeviceSets == {{}, {"A"}, {"A", "B"}, {"A", "B", "C"}}
RiskLevels == {1, 9}
Draws == {0, 50, 99}
Variations == {-3, 3}

\* Dependencies a configuration may list, in the order it lists them.
CandidateEdges ==
    << [from |-> "A", to |-> "B", weights |-> {5, 20, 50}],
       [from |-> "A", to |-> "C", weights |-> {20}],
       [from |-> "B", to |-> "C", weights |-> {5, 20}],
       [from |-> "C", to |-> "A", weights |-> {20}] >>

NoneTime == -1
NoneResults == [status |-> "none"]
NoCurrent == [device |-> "None", time |-> NoneTime]
NoVariation == 0
NoOutcome == [status |-> "none"]

\* the locals of a thread that has not called simulate_attack
IdleFrame ==
    [pc |-> "idle", entry_points |-> <<>>, idx |-> 0, attack_queue |-> <<>>,
     propagation_steps |-> <<>>, current |-> NoCurrent, neighbors |-> <<>>,
     results |-> NoneResults, results_gen |-> 0, error |-> "None", callback |-> FALSE,
     log |-> <<>>, calls |-> [d \in {"A", "B", "C"} |-> 0], enqueued |-> 0,
     dequeued |-> 0, draws |-> {}, tape |-> <<>>, description |-> TRUE]

\* thread 1 runs; thread 2 waits with its locals; no call has been preempted
OneThread ==
    [running |-> 1, preempted |-> [t \in {1, 2} |-> FALSE], frame |-> IdleFrame]

(***************************************************************************)
(* Helpers on sequences and fractions.                                     *)
(***************************************************************************)
Min(a, b) == IF a < b THEN a ELSE b
Max(a, b) == IF a > b THEN a ELSE b

Frac(a, b) == [n |-> a, d |-> b]
FracEq(p, q) == p.n * q.d = q.n * p.d
FracLeq(p, q) == p.n * q.d <= q.n * p.d
FracMul(p, q) == Frac(p.n * q.n, p.d * q.d)
FracSub(p, q) == Frac(p.n * q.d - q.n * p.d, p.d * q.d)

RECURSIVE SeqsUpTo(_, _)
SeqsUpTo(S, n) ==
    IF n = 0 THEN {<<>>}
    ELSE LET shorter == SeqsUpTo(S, n - 1)
         IN shorter \cup {Append(s, x) : s \in {t \in shorter : Len(t) = n - 1}, x \in S}

Range(s) == {s[k] : k \in 1..Len(s)}

\* The devices of a set as a list in insertion (here: alphabetical) order.
RECURSIVE InOrder(_, _)
InOrder(order, S) ==
    IF order = <<>> THEN <<>>
    ELSE IF Head(order) \in S THEN <<Head(order)>> \o InOrder(Tail(order), S)
         ELSE InOrder(Tail(order), S)

NameOrder == <<"A", "B", "C">>

(***************************************************************************)
(* Network configurations: network_config["devices"] maps device name to   *)
(* risk score, network_config["dependencies"] is the list of edges.        *)
(***************************************************************************)
RECURSIVE DependencyLists(_, _)
DependencyLists(cands, devs) ==
    IF cands = <<>> THEN {<<>>}
    ELSE LET rest == DependencyLists(Tail(cands), devs)
             e == Head(cands)
         IN IF e.from \in devs /\ e.to \in devs
            THEN rest \cup {<<[from |-> e.from, to |-> e.to, weight |-> w]>> \o r :
                              w \in e.weights, r \in rest}
            ELSE rest

\* three devices of which B has risk score 0, over every topology, weights 2.0
ZeroRiskConfigs ==
    {[devices |-> [d \in Names |-> IF d = "B" THEN 0 ELSE 9], dependencies |-> deps] :
        deps \in {l \in DependencyLists(CandidateEdges, Names) :
                    \A k \in 1..Len(l) : l[k].weight = 20}}

\* two devices of which A has risk score 0.7, the threshold of a critical device
ThresholdConfigs ==
    {[devices |-> [d \in {"A", "B"} |-> IF d = "A" THEN 7 ELSE 9], dependencies |-> deps] :
        deps \in {l \in DependencyLists(CandidateEdges, {"A", "B"}) :
                    \A k \in 1..Len(l) : l[k].weight = 20}}

NetworkConfigs ==
    UNION {{[devices |-> rs, dependencies |-> deps] :
               rs \in [devs -> RiskLevels],
               deps \in DependencyLists(CandidateEdges, devs)} : devs \in DeviceSets}
    \cup ZeroRiskConfigs \cup ThresholdConfigs

Nodes == DOMAIN graph

HasEdge(s, t) == \E k \in 1..Len(network_config.dependencies) :
                    /\ network_config.dependencies[k].from = s
                    /\ network_config.dependencies[k].to = t

EdgeWeight(s, t) ==
    LET ks == {k \in 1..Len(network_config.dependencies) :
                 /\ network_config.dependencies[k].from = s
                 /\ network_config.dependencies[k].to = t}
        last == CHOOSE k \in ks : \A j \in ks : j <= k
    IN network_config.dependencies[last].weight

RECURSIVE SuccessorsFrom(_, _, _)
SuccessorsFrom(deps, d, seen) ==
    IF deps = <<>> THEN <<>>
    ELSE IF Head(deps).from = d /\ Head(deps).to \notin seen
         THEN <<Head(deps).to>> \o SuccessorsFrom(Tail(deps), d, seen \cup {Head(deps).to})
         ELSE SuccessorsFrom(Tail(deps), d, seen)

Successors(d) == SuccessorsFrom(network_config.dependencies, d, {})
Predecessors(d) == {s \in Nodes : HasEdge(s, d)}

\* the attributes of a node that add_edge created for an endpoint that is not a
\* device: none, in particular no risk_score
NoAttributes == [auto_added |-> TRUE]

\* the endpoints of the dependencies
Endpoints(cfg) ==
    UNION {{cfg.dependencies[k].from, cfg.dependencies[k].to} :
              k \in 1..Len(cfg.dependencies)}

\* lines 21-41: add_node for every device, then add_edge for every dependency,
\* which adds a missing endpoint as a node without attributes
BuildNetworkGraph(cfg) ==
    [d \in DOMAIN cfg.devices \cup Endpoints(cfg) |->
        IF d \in DOMAIN cfg.devices
        THEN [risk_score |-> cfg.devices[d], compromised |-> FALSE,
              compromise_time |-> NoneTime, attack_vector |-> "None"]
        ELSE NoAttributes]

\* Variant: the new states copy the compromised flag of the graph node.
InitializeDeviceStates_FromGraph(g) ==
    [d \in DOMAIN g |->
        [compromised |-> g[d].compromised, compromise_probability |-> 0,
         compromise_time |-> NoneTime, attack_source |-> "None",
         security_level |-> 10 - g[d].risk_score]]

InitializeDeviceStates(g) ==
    [d \in DOMAIN g |->
        [compromised |-> FALSE, compromise_probability |-> 0,
         compromise_time |-> NoneTime, attack_source |-> "None",
         security_level |-> 10 - g[d].risk_score]]

\* Variant: the reset leaves the attack_vector attribute of the nodes.
ResetGraph_KeepVector(g) ==
    [d \in DOMAIN g |->
        [g[d] EXCEPT !.compromised = FALSE, !.compromise_time = NoneTime]]

\* Variant: the reset does not touch the graph nodes.
ResetGraph_KeepFlags(g) == g

ResetGraph(g) ==
    [d \in DOMAIN g |->
        [g[d] EXCEPT !.compromised = FALSE, !.compromise_time = NoneTime,
                     !.attack_vector = "None"]]

InitFrom(configs) ==
    /\ network_config \in configs
    /\ graph = BuildNetworkGraph(network_config)
    /\ device_states = InitializeDeviceStates(graph)
    /\ attack_timeline = <<>>
    /\ pc = "idle"
    /\ entry_points = <<>>
    /\ idx = 0
    /\ attack_queue = <<>>
    /\ propagation_steps = <<>>
    /\ current = NoCurrent
    /\ neighbors = <<>>
    /\ results = NoneResults
    /\ error = "None"
    /\ callback = FALSE
    /\ log = <<>>
    /\ calls = [d \in Names |-> 0]
    /\ enqueued = 0
    /\ dequeued = 0
    /\ draws = {}
    /\ tape = <<>>
    /\ seeded = FALSE
    /\ stream = <<>>
    /\ now = 0
    /\ heap = <<>>
    /\ results_gen = 0
    /\ first = NoOutcome
    /\ call_no = 0
    /\ description = TRUE
    /\ other = OneThread

Init == InitFrom(NetworkConfigs)

(***************************************************************************)
(* _compromise_device: the three writes to device_states, the three writes *)
(* to the graph node and the timeline entry.                               *)
(***************************************************************************)
\* Variant: the time and source are recorded but the compromised flag is not set.
CompromiseStates_FlagNotSet(states, device, time, attack_vector) ==
    [states EXCEPT ![device] = [@ EXCEPT !.compromise_time = time,
                                         !.attack_source = attack_vector]]

CompromiseStates(states, device, time, attack_vector) ==
    [states EXCEPT ![device] = [@ EXCEPT !.compromised = TRUE,
                                         !.compromise_time = time,
                                         !.attack_source = attack_vector]]

\* Variant: the compromise time is not written to the graph node.
CompromiseGraph_NoTime(g, device, time, attack_vector) ==
    [g EXCEPT ![device] = [@ EXCEPT !.compromised = TRUE,
                                    !.attack_vector = attack_vector]]

CompromiseGraph(g, device, time, attack_vector) ==
    [g EXCEPT ![device] = [@ EXCEPT !.compromised = TRUE,
                                    !.compromise_time = time,
                                    !.attack_vector = attack_vector]]

\* Variant: the timeline entry is stamped with time 0.
TimelineAppend_ZeroTime(timeline, g, device, time, attack_vector) ==
    Append(timeline, [device |-> device, time |-> 0,
                      risk |-> g[device].risk_score,
                      attack_vector |-> attack_vector])

TimelineAppend(timeline, g, device, time, attack_vector) ==
    Append(timeline, [device |-> device, time |-> time,
                      risk |-> g[device].risk_score,
                      attack_vector |-> attack_vector])

(***************************************************************************)
(* _calculate_attack_probability, in units of 10^-8, and                   *)
(* _calculate_propagation_delay, in milliseconds.                          *)
(***************************************************************************)
ProbabilityCap == 95000000

\* Variant: the decay is taken per 10 seconds and has no floor.
CalculateAttackProbability_FastDecay(source, target, current_time) ==
    LET base_prob == graph[target].risk_score
        weight_factor == Min(EdgeWeight(source, target), 20)
        time_decay == 100000 - 10 * current_time
        compromised_neighbors ==
            Cardinality({p \in Predecessors(target) : device_states[p].compromised})
        network_effect == 5 + compromised_neighbors
        final_probability == base_prob * weight_factor * time_decay * network_effect
    IN Min(final_probability, ProbabilityCap)

\* Variant: the product is capped at 1.0.
CalculateAttackProbability_CapAtOne(source, target, current_time) ==
    LET base_prob == graph[target].risk_score
        weight_factor == Min(EdgeWeight(source, target), 20)
        time_decay == Max(10000, 100000 - current_time)
        compromised_neighbors ==
            Cardinality({p \in Predecessors(target) : device_states[p].compromised})
        network_effect == 5 + compromised_neighbors
    IN Min(base_prob * weight_factor * time_decay * network_effect, 100000000)

\* Variant: the product is returned without the cap.
CalculateAttackProbability_NoCap(source, target, current_time) ==
    LET base_prob == graph[target].risk_score
        weight_factor == Min(EdgeWeight(source, target), 20)
        time_decay == Max(10000, 100000 - current_time)
        compromised_neighbors ==
            Cardinality({p \in Predecessors(target) : device_states[p].compromised})
        network_effect == 5 + compromised_neighbors
    IN base_prob * weight_factor * time_decay * network_effect

\* Variant: the compromised successors of the target are counted.
CompromisedNeighbors_Successors(target) ==
    Cardinality({t \in Nodes : HasEdge(target, t) /\ device_states[t].compromised})

\* lines 150-153: the compromised predecessors of the target
CompromisedNeighbors(target) ==
    Cardinality({p \in Predecessors(target) : device_states[p].compromised})

\* line 154: 1.0 + compromised_neighbors * 0.2, in fifths
NetworkEffect(target) == 5 + CompromisedNeighbors(target)

CalculateAttackProbability(source, target, current_time) ==
    LET base_prob == graph[target].risk_score
        weight_factor == Min(EdgeWeight(source, target), 20)
        time_decay == Max(10000, 100000 - current_time)
        network_effect == NetworkEffect(target)
        final_probability == base_prob * weight_factor * time_decay * network_effect
    IN Min(final_probability, ProbabilityCap)

\* random.random() < success_prob, the draw in hundredths
DrawSucceeds(draw, success_prob) == draw * 1000000 < success_prob

\* Variant: the delay is returned without the minimum of one second.
CalculatePropagationDelay_NoFloor(target, edge_weight, variation) ==
    LET base_delay == 50000 \div Max(edge_weight, 1)
        delay == (base_delay * (10 + variation)) \div 10
        security_factor == device_states[target].security_level
    IN (delay * (10 + security_factor)) \div 10

CalculatePropagationDelay(target, edge_weight, variation) ==
    LET base_delay == 50000 \div Max(edge_weight, 1)
        delay == (base_delay * (10 + variation)) \div 10
        security_factor == device_states[target].security_level
        scaled == (delay * (10 + security_factor)) \div 10
    IN Max(scaled, 1000)

\* callback(message): the caller's log receives the message when a callback is given
Emit(events, cb, message) == IF cb THEN Append(events, message) ELSE events

(***************************************************************************)
(* Objects.  device_states and attack_timeline are the objects the         *)
(* simulator's attributes are bound to; heap lists, in order of creation,  *)
(* the objects those attributes were bound to before.  The objects bound   *)
(* now are number Len(heap) + 1.  A result record refers to the timeline   *)
(* list and to the per-device dicts that were bound when it was built.     *)
(***************************************************************************)
\* lines 195-196: the attributes are bound to new objects, the old ones are kept
\* by whoever still refers to them
\* Variant: the reset clears the dict and the list in place, no new objects.
Rebind_InPlace(objects, timeline, states) == objects

Rebind(objects, timeline, states) ==
    Append(objects, [attack_timeline |-> timeline, device_states |-> states])

CurrentGen == Len(heap) + 1

\* what a record that refers to the objects of generation g shows now
Deref(record, g) ==
    IF g = CurrentGen
    THEN [record EXCEPT !.compromise_timeline = attack_timeline,
                        !.device_states = [d \in DOMAIN record.device_states |->
                                              device_states[d]]]
    ELSE [record EXCEPT !.compromise_timeline = heap[g].attack_timeline,
                        !.device_states = [d \in DOMAIN record.device_states |->
                                              heap[g].device_states[d]]]

(***************************************************************************)
(* The random source: random.random() returns any draw, random.uniform any *)
(* variation; a seeded source returns the values of stream, in order.      *)
(***************************************************************************)
DrawChoices ==
    IF seeded /\ stream # <<>> THEN {Head(stream).draw} ELSE Draws

VariationChoices ==
    IF seeded /\ stream # <<>> /\ Head(stream).variation # NoVariation
    THEN {Head(stream).variation} ELSE Variations

Advance(values) == IF seeded /\ values # <<>> THEN Tail(values) ELSE values

LateralLabel(device) == "Lateral movement from " \o device

(***************************************************************************)
(* _calculate_results.                                                     *)
(***************************************************************************)
\* sorted(timeline, key=time): stable insertion into an ascending list
RECURSIVE InsertByTime(_, _)
InsertByTime(sorted, e) ==
    IF sorted = <<>> THEN <<e>>
    ELSE IF Head(sorted).time <= e.time
         THEN <<Head(sorted)>> \o InsertByTime(Tail(sorted), e)
         ELSE <<e>> \o sorted

\* Variant: the timeline is returned in insertion order.
SortedByTime_InsertionOrder(timeline) == timeline

RECURSIVE SortedByTime(_)
SortedByTime(timeline) ==
    IF timeline = <<>> THEN <<>>
    ELSE InsertByTime(SortedByTime(SubSeq(timeline, 1, Len(timeline) - 1)),
                      timeline[Len(timeline)])

RECURSIVE MaxTime(_)
MaxTime(timeline) ==
    IF timeline = <<>> THEN 0
    ELSE IF Len(timeline) = 1 THEN Head(timeline).time
         ELSE Max(Head(timeline).time, MaxTime(Tail(timeline)))

RECURSIVE SetSum(_, _)
SetSum(f, S) == IF S = {} THEN 0
                ELSE LET x == CHOOSE y \in S : TRUE IN f[x] + SetSum(f, S \ {x})

Compromised(states) == {d \in DOMAIN states : states[d].compromised}

AffectedDevices(states) == Cardinality(Compromised(states))

\* np.mean of a list of risk scores (tenths); the mean of no values is nan
NaN == Frac(0, 0)
MeanRisk(g, S) ==
    IF S = {} THEN NaN
    ELSE Frac(SetSum([d \in S |-> g[d].risk_score], S), 10 * Cardinality(S))

\* Variant: the quotient is taken the wrong way round.
PropagationRate_Inverted(affected_devices, total_devices) ==
    IF total_devices > 0 THEN Frac(total_devices, affected_devices) ELSE Frac(0, 1)

PropagationRate(affected_devices, total_devices) ==
    IF total_devices > 0 THEN Frac(affected_devices, total_devices) ELSE Frac(0, 1)

HighRisk(g) == {d \in DOMAIN g : g[d].risk_score > 7}

\* Variant: a device with risk score 0.7 counts as critical.
CriticalDevices_FromThreshold(g, states) ==
    {d \in Compromised(states) : g[d].risk_score >= 7}

CriticalDevices(g, states) == Compromised(states) \cap HighRisk(g)

ResilienceScore(g, states) ==
    LET uncompromised_critical == HighRisk(g) \ Compromised(states)
    IN Frac(Cardinality(uncompromised_critical), Max(1, Cardinality(HighRisk(g))))

\* Variant: the post-attack risk is not scaled by the propagation rate.
RiskIncrease_Unscaled(g, states) ==
    IF Compromised(states) # {}
    THEN FracSub(MeanRisk(g, Compromised(states)), MeanRisk(g, DOMAIN g))
    ELSE Frac(0, 1)

RiskIncrease(g, states) ==
    LET total_devices == Cardinality(DOMAIN g)
        affected_devices == AffectedDevices(states)
        initial_risk == MeanRisk(g, DOMAIN g)
        post_attack_risk ==
            FracMul(MeanRisk(g, Compromised(states)), Frac(affected_devices, total_devices))
    IN IF Compromised(states) # {} THEN FracSub(post_attack_risk, initial_risk)
       ELSE Frac(0, 1)

OverallRiskScore(g, states) ==
    IF Compromised(states) # {}
    THEN FracMul(MeanRisk(g, Compromised(states)),
                 Frac(AffectedDevices(states), Cardinality(DOMAIN g)))
    ELSE MeanRisk(g, DOMAIN g)

\* Variant: the duration is the time of the last timeline entry.
AttackDuration_Last(timeline) ==
    IF timeline # <<>> THEN timeline[Len(timeline)].time ELSE 0

AttackDuration(timeline) == IF timeline # <<>> THEN MaxTime(timeline) ELSE 0

CalculateResults(g, states, timeline, attack_scenario, steps, timestamp) ==
    [attack_scenario |-> attack_scenario,
     total_devices |-> Cardinality(DOMAIN g),
     affected_devices |-> AffectedDevices(states),
     propagation_rate |-> PropagationRate(AffectedDevices(states), Cardinality(DOMAIN g)),
     overall_risk_score |-> OverallRiskScore(g, states),
     initial_risk_score |-> MeanRisk(g, DOMAIN g),
     risk_increase |-> RiskIncrease(g, states),
     attack_duration |-> AttackDuration(timeline),
     attack_path |-> SortedByTime(timeline),
     propagation_steps |-> steps,
     critical_devices_compromised |-> InOrder(NameOrder, CriticalDevices(g, states)),
     network_resilience_score |-> ResilienceScore(g, states),
     compromise_timeline |-> timeline,
     device_states |-> states,
     simulation_timestamp |-> timestamp]

(***************************************************************************)
(* simulate_attack, one action per step of the call.                       *)
(***************************************************************************)
Scenarios == SeqsUpTo(Names, MaxEntries)

\* the attack_scenario dict of the call; "description" may be missing from it
AttackScenario ==
    IF description THEN [attack_entry |-> entry_points, description |-> "text"]
    ELSE [attack_entry |-> entry_points]

\* lines 67-75: first callback message, reset, then read the entry points
BeginRunWith(scenario, cb) ==
    /\ entry_points' = scenario
    /\ callback' = cb
    /\ log' = Emit(<<>>, cb, [event |-> "Starting attack simulation"])
    /\ heap' = Rebind(heap, attack_timeline, device_states)
    /\ device_states' = InitializeDeviceStates(graph)
    /\ attack_timeline' = <<>>
    /\ graph' = ResetGraph(graph)
    /\ idx' = 1
    /\ pc' = "entries"
    /\ attack_queue' = <<>>
    /\ propagation_steps' = <<>>
    /\ current' = NoCurrent
    /\ neighbors' = <<>>
    /\ error' = "None"
    /\ calls' = [d \in Names |-> 0]
    /\ enqueued' = 0
    /\ dequeued' = 0
    /\ draws' = {}
    /\ tape' = <<>>
    /\ UNCHANGED <<network_config, results, results_gen, now>>

BeginRun == \E scenario \in Scenarios, cb \in BOOLEAN : BeginRunWith(scenario, cb)

\* the first call on a new simulator, the random source not seeded
Start ==
    /\ pc = "idle"
    /\ BeginRun
    /\ seeded' = FALSE
    /\ stream' = <<>>
    /\ call_no' = call_no + 1
    /\ description' = TRUE
    /\ UNCHANGED <<first, other>>

\* lines 78-81: _compromise_device(entry_point, 0.0, "Initial Attack")
CompromiseEntry ==
    /\ pc = "entries"
    /\ idx <= Len(entry_points)
    /\ entry_points[idx] \in Nodes
    /\ LET device == entry_points[idx]
       IN /\ device_states' = CompromiseStates(device_states, device, 0, "Initial Attack")
          /\ graph' = CompromiseGraph(graph, device, 0, "Initial Attack")
          /\ attack_timeline' = TimelineAppend(attack_timeline, graph, device, 0, "Initial Attack")
          /\ calls' = [calls EXCEPT ![device] = @ + 1]
          /\ log' = Emit(log, callback, [event |-> "Initial compromise", device |-> device])
    /\ idx' = idx + 1
    /\ UNCHANGED <<network_config, pc, entry_points, attack_queue, propagation_steps,
                   current, neighbors, results, error, callback, enqueued, dequeued, draws,
                   tape, rng_vars, now, heap, results_gen, caller_vars>>

\* line 176 on a name that is not a key of device_states: KeyError leaves the call
EntryFails ==
    /\ pc = "entries"
    /\ idx <= Len(entry_points)
    /\ entry_points[idx] \notin Nodes
    /\ pc' = "failed"
    /\ error' = "KeyError"
    /\ UNCHANGED <<network_config, graph, device_states, attack_timeline, entry_points, idx,
                   attack_queue, propagation_steps, current, neighbors, results,
                   callback, log, calls, enqueued, dequeued, draws,
                   tape, rng_vars, now, heap, results_gen, caller_vars>>

\* lines 84-85
BuildQueue ==
    /\ pc = "entries"
    /\ idx > Len(entry_points)
    /\ attack_queue' = [k \in 1..Len(entry_points) |-> [device |-> entry_points[k], time |-> 0]]
    /\ propagation_steps' = <<>>
    /\ enqueued' = Len(entry_points)
    /\ pc' = "loop"
    /\ UNCHANGED <<network_config, graph, device_states, attack_timeline, entry_points, idx,
                   current, neighbors, results, error, callback, log, calls, dequeued,
                   draws, tape, rng_vars, now, heap, results_gen, caller_vars>>

\* lines 87-91
PopLeft ==
    /\ pc = "loop"
    /\ attack_queue # <<>>
    /\ current' = Head(attack_queue)
    /\ attack_queue' = Tail(attack_queue)
    /\ neighbors' = Successors(Head(attack_queue).device)
    /\ dequeued' = dequeued + 1
    /\ pc' = IF Successors(Head(attack_queue).device) = <<>> THEN "loop" ELSE "neighbors"
    /\ UNCHANGED <<network_config, graph, device_states, attack_timeline, entry_points, idx,
                   propagation_steps, results, error, callback, log, calls, enqueued,
                   draws, tape, rng_vars, now, heap, results_gen, caller_vars>>

\* Variant: the callback is told of every attempt, also of a failed one.
AttemptEvents_Reported(events, cb, source, target) ==
    Emit(events, cb, [event |-> "Attempt", source |-> source, target |-> target])

\* lines 96-101: nothing is reported for an attempt whose draw fails
AttemptEvents(events, cb, source, target) == events

\* Variant: the test of line 94 lets every neighbor through.
AlreadyCompromised_Never(states, device) == FALSE

\* line 94: if not self.device_states[neighbor]["compromised"]
AlreadyCompromised(states, device) == states[device].compromised

\* Variant: the compromised device is put at the front of the queue.
Enqueue_AtFront(queue, device, time) == <<[device |-> device, time |-> time]>> \o queue

\* line 112: attack_queue.append((neighbor, new_time))
Enqueue(queue, device, time) == Append(queue, [device |-> device, time |-> time])

\* Variant: the step is recorded with source and target exchanged.
StepRecord_Swapped(source, target, time, success_prob) ==
    [source |-> target, target |-> source, time |-> time,
     success_probability |-> success_prob, method |-> "Lateral Movement"]

\* lines 119-125: the propagation step of a successful attempt
StepRecord(source, target, time, success_prob) ==
    [source |-> source, target |-> target, time |-> time,
     success_probability |-> success_prob, method |-> "Lateral Movement"]

\* Variant: the iteration over the neighbors does not advance.
NextNeighbor_NoAdvance ==
    /\ neighbors' = neighbors
    /\ pc' = "neighbors"

\* line 93: on to the next neighbor, or back to the while test after the last one
NextNeighbor ==
    /\ neighbors' = Tail(neighbors)
    /\ pc' = IF Tail(neighbors) = <<>> THEN "loop" ELSE "neighbors"

\* line 94, the neighbor is already compromised
SkipNeighbor ==
    /\ pc = "neighbors"
    /\ AlreadyCompromised(device_states, Head(neighbors))
    /\ NextNeighbor
    /\ UNCHANGED <<network_config, graph, device_states, attack_timeline, entry_points, idx,
                   attack_queue, propagation_steps, current, results, error,
                   callback, log, calls, enqueued, dequeued, draws,
                   tape, rng_vars, now, heap, results_gen, caller_vars>>

\* lines 94-101, the draw is not below the success probability
AttackFails ==
    /\ pc = "neighbors"
    /\ ~AlreadyCompromised(device_states, Head(neighbors))
    /\ \E draw \in DrawChoices :
          /\ ~DrawSucceeds(draw, CalculateAttackProbability(current.device, Head(neighbors),
                                                            current.time))
          /\ draws' = draws \cup {draw}
          /\ tape' = Append(tape, [draw |-> draw, variation |-> NoVariation,
                                   source |-> current.device, target |-> Head(neighbors)])
    /\ log' = AttemptEvents(log, callback, current.device, Head(neighbors))
    /\ stream' = Advance(stream)
    /\ NextNeighbor
    /\ UNCHANGED <<network_config, graph, device_states, attack_timeline, entry_points, idx,
                   attack_queue, propagation_steps, current, results, error,
                   callback, calls, enqueued, dequeued,
                   seeded, now, heap, results_gen, caller_vars>>

\* lines 94-128, the draw is below the success probability
AttackSucceeds ==
    /\ pc = "neighbors"
    /\ ~AlreadyCompromised(device_states, Head(neighbors))
    /\ \E draw \in DrawChoices, variation \in VariationChoices :
          LET neighbor == Head(neighbors)
              success_prob == CalculateAttackProbability(current.device, neighbor, current.time)
              edge_weight == EdgeWeight(current.device, neighbor)
              propagation_delay == CalculatePropagationDelay(neighbor, edge_weight, variation)
              new_time == current.time + propagation_delay
              label == LateralLabel(current.device)
          IN /\ DrawSucceeds(draw, success_prob)
             /\ draws' = draws \cup {draw}
             /\ tape' = Append(tape, [draw |-> draw, variation |-> variation,
                                      source |-> current.device, target |-> neighbor])
             /\ device_states' = CompromiseStates(device_states, neighbor, new_time, label)
             /\ graph' = CompromiseGraph(graph, neighbor, new_time, label)
             /\ attack_timeline' = TimelineAppend(attack_timeline, graph, neighbor, new_time, label)
             /\ calls' = [calls EXCEPT ![neighbor] = @ + 1]
             /\ attack_queue' = Enqueue(attack_queue, neighbor, new_time)
             /\ enqueued' = enqueued + 1
             /\ propagation_steps' = Append(propagation_steps,
                    StepRecord(current.device, neighbor, new_time, success_prob))
             /\ log' = Emit(log, callback, [event |-> "Propagation", source |-> current.device,
                                            target |-> neighbor, time |-> new_time])
    /\ stream' = Advance(stream)
    /\ NextNeighbor
    /\ UNCHANGED <<network_config, entry_points, idx, current, results, error, callback,
                   dequeued, seeded, now, heap, results_gen, caller_vars>>

\* lines 87 (queue empty) and 131-136; time.time() is the clock, which does not run
\* backwards
Finish ==
    /\ pc = "loop"
    /\ attack_queue = <<>>
    /\ \E timestamp \in {now, now + 1} :
          /\ results' = CalculateResults(graph, device_states, attack_timeline,
                                         AttackScenario, propagation_steps, timestamp)
          /\ now' = timestamp
    /\ results_gen' = CurrentGen
    /\ log' = Emit(log, callback, [event |-> "Simulation completed",
                                   affected_devices |-> AffectedDevices(device_states)])
    /\ pc' = "done"
    /\ current' = NoCurrent
    /\ UNCHANGED <<network_config, graph, device_states, attack_timeline, entry_points, idx,
                   attack_queue, propagation_steps, neighbors, error, callback,
                   calls, enqueued, dequeued, draws, tape, rng_vars, heap, caller_vars>>

Next ==
    \/ Start
    \/ CompromiseEntry
    \/ EntryFails
    \/ BuildQueue
    \/ PopLeft
    \/ SkipNeighbor
    \/ AttackFails
    \/ AttackSucceeds
    \/ Finish

Spec == Init /\ [][Next]_vars

\* Termination is checked over every topology of NetworkConfigs, with every risk
\* score 0.9 and every weight 2.0.  The call is one sequential computation: a
\* step that can be taken is taken.
FairInit ==
    /\ Init
    /\ \A d \in DOMAIN network_config.devices : network_config.devices[d] = 9
    /\ \A k \in 1..Len(network_config.dependencies) :
          network_config.dependencies[k].weight = 20

FairSpec == FairInit /\ [][Next]_vars /\ WF_vars(Next)

(***************************************************************************)
(* Two calls with the same scenario on one simulator, the second with the  *)
(* random source seeded to return what the first call drew.  The scenario  *)
(* may lack its description; the callback may differ between the calls.    *)
(***************************************************************************)
ReplayConfigs ==
    {c \in NetworkConfigs :
        /\ \A d \in DOMAIN c.devices : c.devices[d] = (IF d = "B" THEN 1 ELSE 9)
        /\ \A k \in 1..Len(c.dependencies) : c.dependencies[k].weight = 20}

ReplayInit == InitFrom(ReplayConfigs)

Outcome ==
    [pc |-> pc, error |-> error, results |-> results, results_gen |-> results_gen,
     device_states |-> device_states, graph |-> graph,
     attack_timeline |-> attack_timeline, callback |-> callback]

\* Variant: the first callback message raises whenever a callback is given.
CallbackFails_Always(cb, has_description) == cb

\* lines 67-68: the message is built only for a callback, from
\* attack_scenario['description']
CallbackFails(cb, has_description) == cb /\ ~has_description

\* line 68 with a callback and no "description" key: KeyError before the reset
DescriptionFails(scenario) ==
    /\ entry_points' = scenario
    /\ callback' = TRUE
    /\ pc' = "failed"
    /\ error' = "KeyError"
    /\ UNCHANGED <<network_config, graph, device_states, attack_timeline, idx, attack_queue,
                   propagation_steps, current, neighbors, results, log, calls, enqueued,
                   dequeued, draws, tape, now, heap, results_gen>>

\* a first call whose scenario has no description
StartBare ==
    /\ pc = "idle"
    /\ \E scenario \in Scenarios, cb \in BOOLEAN :
          IF CallbackFails(cb, FALSE) THEN DescriptionFails(scenario)
          ELSE BeginRunWith(scenario, cb)
    /\ seeded' = FALSE
    /\ stream' = <<>>
    /\ call_no' = call_no + 1
    /\ description' = FALSE
    /\ UNCHANGED <<first, other>>

\* the second call: same scenario, same values from the random source
Replay ==
    /\ pc \in {"done", "failed"}
    /\ call_no = 1
    /\ \E cb \in BOOLEAN :
          IF CallbackFails(cb, description) THEN DescriptionFails(entry_points)
          ELSE BeginRunWith(entry_points, cb)
    /\ seeded' = TRUE
    /\ stream' = tape
    /\ first' = Outcome
    /\ call_no' = call_no + 1
    /\ UNCHANGED <<description, other>>

ReplayNext ==
    \/ Next
    \/ StartBare
    \/ Replay

ReplaySpec == ReplayInit /\ [][ReplayNext]_vars

(***************************************************************************)
(* Two calls on one simulator, the second with any scenario, and            *)
(* _reset_simulation called on its own between and after the calls.         *)
(***************************************************************************)
MaxResets == 3

RerunConfigs == {c \in ReplayConfigs : DOMAIN c.devices = {"A", "B"}}

RerunInit == InitFrom(RerunConfigs)

\* a second call; the caller keeps what the first call left and returned
Restart ==
    /\ pc \in {"done", "failed"}
    /\ call_no = 1
    /\ BeginRun
    /\ seeded' = FALSE
    /\ stream' = <<>>
    /\ first' = Outcome
    /\ call_no' = call_no + 1
    /\ description' = TRUE
    /\ UNCHANGED other

\* lines 193-202, called while no simulate_attack is running
Reset ==
    /\ pc \in {"idle", "done", "failed"}
    /\ Len(heap) < MaxResets
    /\ heap' = Rebind(heap, attack_timeline, device_states)
    /\ device_states' = InitializeDeviceStates(graph)
    /\ attack_timeline' = <<>>
    /\ graph' = ResetGraph(graph)
    /\ calls' = [d \in Names |-> 0]
    /\ UNCHANGED <<network_config, pc, entry_points, idx, attack_queue, propagation_steps,
                   current, neighbors, results, error, callback, log, enqueued, dequeued,
                   draws, tape, rng_vars, now, results_gen, caller_vars>>

RerunNext ==
    \/ Next
    \/ Restart
    \/ Reset

RerunSpec == RerunInit /\ [][RerunNext]_vars

(***************************************************************************)
(* Construction from a definition as the caller supplies it: a dependency  *)
(* may name a device that is not in the device map, a risk score may lie   *)
(* outside [0,1].  One call follows a construction that succeeded.         *)
(***************************************************************************)
Unbuilt == <<>>

DanglingConfigs ==
    {[devices |-> [d \in {"A"} |-> 9],
      dependencies |-> <<[from |-> "A", to |-> "B", weight |-> 20]>>],
     [devices |-> [d \in {"A", "B"} |-> 9],
      dependencies |-> <<[from |-> "C", to |-> "A", weight |-> 20]>>]}

OutOfRangeConfigs ==
    {[devices |-> [d \in {"A"} |-> 15], dependencies |-> <<>>],
     [devices |-> [d \in {"A", "B"} |-> IF d = "A" THEN 9 ELSE 15],
      dependencies |-> <<[from |-> "A", to |-> "B", weight |-> 20]>>],
     [devices |-> [d \in {"A", "B"} |-> IF d = "A" THEN 9 ELSE -5],
      dependencies |-> <<[from |-> "A", to |-> "B", weight |-> 20]>>]}

RawConfigs == RerunConfigs \cup DanglingConfigs \cup OutOfRangeConfigs

BuildInit ==
    /\ network_config \in RawConfigs
    /\ graph = Unbuilt
    /\ device_states = Unbuilt
    /\ attack_timeline = <<>>
    /\ pc = "new"
    /\ entry_points = <<>>
    /\ idx = 0
    /\ attack_queue = <<>>
    /\ propagation_steps = <<>>
    /\ current = NoCurrent
    /\ neighbors = <<>>
    /\ results = NoneResults
    /\ error = "None"
    /\ callback = FALSE
    /\ log = <<>>
    /\ calls = [d \in Names |-> 0]
    /\ enqueued = 0
    /\ dequeued = 0
    /\ draws = {}
    /\ tape = <<>>
    /\ seeded = FALSE
    /\ stream = <<>>
    /\ now = 0
    /\ heap = <<>>
    /\ results_gen = 0
    /\ first = NoOutcome
    /\ call_no = 0
    /\ description = TRUE
    /\ other = OneThread

\* line 53 reads risk_score of every node of the graph
MissingRiskScore(g) == \E d \in DOMAIN g : g[d] = NoAttributes

\* lines 14-19 run to the end: the simulator exists
Construct ==
    /\ pc = "new"
    /\ ~MissingRiskScore(BuildNetworkGraph(network_config))
    /\ graph' = BuildNetworkGraph(network_config)
    /\ device_states' = InitializeDeviceStates(BuildNetworkGraph(network_config))
    /\ attack_timeline' = <<>>
    /\ pc' = "idle"
    /\ UNCHANGED <<network_config, entry_points, idx, attack_queue, propagation_steps,
                   current, neighbors, results, error, callback, log, calls, enqueued,
                   dequeued, draws, tape, rng_vars, now, heap, results_gen, caller_vars>>

\* line 53 raises KeyError out of __init__ (line 18): no simulator
ConstructFails ==
    /\ pc = "new"
    /\ MissingRiskScore(BuildNetworkGraph(network_config))
    /\ pc' = "failed"
    /\ error' = "KeyError"
    /\ UNCHANGED <<network_config, graph, device_states, attack_timeline, entry_points, idx,
                   attack_queue, propagation_steps, current, neighbors, results, callback,
                   log, calls, enqueued, dequeued, draws, tape, rng_vars, now, heap,
                   results_gen, caller_vars>>

BuildNext ==
    \/ Construct
    \/ ConstructFails
    \/ Next

BuildSpec == BuildInit /\ [][BuildNext]_vars

(***************************************************************************)
(* Two threads call simulate_attack on one simulator, one call each.  The  *)
(* simulator takes no lock: between two steps of a call the other thread   *)
(* may run.  graph, device_states and attack_timeline are the simulator's, *)
(* everything else of a call is local to its thread.                       *)
(***************************************************************************)
ConcConfigs == RerunConfigs

ConcInit == InitFrom(ConcConfigs)

\* the scenarios of the two calls: at most one entry point each
ConcScenarios == {scenario \in Scenarios : Len(scenario) <= 1}

\* the call of the running thread, without a callback
ConcStart ==
    /\ pc = "idle"
    /\ \E scenario \in ConcScenarios : BeginRunWith(scenario, FALSE)
    /\ seeded' = FALSE
    /\ stream' = <<>>
    /\ call_no' = call_no + 1
    /\ description' = TRUE
    /\ UNCHANGED <<first, other>>

\* the locals of the running thread
Frame ==
    [pc |-> pc, entry_points |-> entry_points, idx |-> idx, attack_queue |-> attack_queue,
     propagation_steps |-> propagation_steps, current |-> current, neighbors |-> neighbors,
     results |-> results, results_gen |-> results_gen, error |-> error,
     callback |-> callback, log |-> log, calls |-> calls, enqueued |-> enqueued,
     dequeued |-> dequeued, draws |-> draws, tape |-> tape, description |-> description]

\* the positions of a call between its reset and its return
MidCall == {"entries", "loop", "neighbors"}

\* Variant: no record is kept of a call having been interrupted.
MarkPreempted_Never(was, at) == was

\* a call is interrupted when its thread is switched out between line 71 and
\* line 136
MarkPreempted(was, at) == was \/ at \in MidCall

\* the interpreter switches threads between two steps
Switch ==
    /\ pc # "idle"
    /\ other' = [running |-> 3 - other.running,
                 preempted |-> [other.preempted EXCEPT
                                   ![other.running] = MarkPreempted(@, pc)],
                 frame |-> Frame]
    /\ pc' = other.frame.pc
    /\ entry_points' = other.frame.entry_points
    /\ idx' = other.frame.idx
    /\ attack_queue' = other.frame.attack_queue
    /\ propagation_steps' = other.frame.propagation_steps
    /\ current' = other.frame.current
    /\ neighbors' = other.frame.neighbors
    /\ results' = other.frame.results
    /\ results_gen' = other.frame.results_gen
    /\ error' = other.frame.error
    /\ callback' = other.frame.callback
    /\ log' = other.frame.log
    /\ calls' = other.frame.calls
    /\ enqueued' = other.frame.enqueued
    /\ dequeued' = other.frame.dequeued
    /\ draws' = other.frame.draws
    /\ tape' = other.frame.tape
    /\ description' = other.frame.description
    /\ UNCHANGED <<network_config, graph, device_states, attack_timeline, rng_vars, now,
                   heap, first, call_no>>

ConcNext ==
    \/ ConcStart
    \/ CompromiseEntry
    \/ EntryFails
    \/ BuildQueue
    \/ PopLeft
    \/ SkipNeighbor
    \/ AttackFails
    \/ AttackSucceeds
    \/ Finish
    \/ Switch

ConcSpec == ConcInit /\ [][ConcNext]_vars

TypeOK ==
    /\ pc \in {"new", "idle", "entries", "loop", "neighbors", "done", "failed"}
    /\ DOMAIN device_states = DOMAIN graph

(***************************************************************************)
(* Properties.                                                             *)
(***************************************************************************)
One == Frac(1, 1)
Zero == Frac(0, 1)

IsSorted(path) == \A k \in 1..(Len(path) - 1) : path[k].time <= path[k + 1].time

\* C1: when simulate_attack returns, every entry point is compromised in the
\* result and affected_devices is at least the number of distinct entry points.
C1_EntryPointsCompromised ==
    pc = "done" =>
        /\ \A k \in 1..Len(entry_points) :
              /\ results.device_states[entry_points[k]].compromised
              /\ device_states[entry_points[k]].compromised
        /\ results.affected_devices >= Cardinality(Range(entry_points))

\* two distinct entry points in a three-device network, an attempt was made and
\* the third device stayed clean
C1_Witness ==
    /\ pc = "done"
    /\ Cardinality(Range(entry_points)) = 2
    /\ results.total_devices = 3
    /\ results.affected_devices = 2
    /\ draws # {}

\* C2: an entry point absent from the network makes the call fail with
\* InvalidScenarioError before any mutation: nothing is compromised and the
\* timeline is empty.
C2_FailsBeforeMutation ==
    pc = "failed" =>
        /\ error = "InvalidScenarioError"
        /\ Compromised(device_states) = {}
        /\ \A d \in Nodes : ~graph[d].compromised
        /\ attack_timeline = <<>>

\* C3: simulate_attack never returns a result for an empty entry-point list.
C3_EmptyScenarioRejected ==
    ~(pc = "done" /\ entry_points = <<>>)

\* C4: network_resilience_score lies in [0,1] and is 1.0 whenever no device has
\* risk score > 0.7.
C4_ResilienceScore ==
    pc = "done" =>
        /\ FracLeq(Zero, results.network_resilience_score)
        /\ FracLeq(results.network_resilience_score, One)
        /\ (HighRisk(graph) = {} => FracEq(results.network_resilience_score, One))

\* The network {A: 0.9, B: 0.1} with the single edge A -> B of weight 2.0, attacked
\* from [A], with every draw 0.99.
C5_Scenario ==
    /\ pc = "done"
    /\ network_config.devices = [d \in {"A", "B"} |-> IF d = "A" THEN 9 ELSE 1]
    /\ network_config.dependencies = <<[from |-> "A", to |-> "B", weight |-> 20]>>
    /\ entry_points = <<"A">>
    /\ draws = {99}

\* C5 as stated: in that scenario B is uncompromised, affected_devices = 1,
\* propagation_rate = 0.5 and risk_increase = 0.
C5_ZeroRiskIncrease ==
    C5_Scenario =>
        /\ ~results.device_states["B"].compromised
        /\ results.affected_devices = 1
        /\ FracEq(results.propagation_rate, Frac(1, 2))
        /\ FracEq(results.risk_increase, Zero)

\* C5 amended: in that scenario B is uncompromised, affected_devices = 1,
\* propagation_rate = 0.5 and risk_increase = 0.9 * 0.5 - 0.5 = -0.05.
C5_NegativeRiskIncrease ==
    C5_Scenario =>
        /\ ~results.device_states["B"].compromised
        /\ results.affected_devices = 1
        /\ FracEq(results.propagation_rate, Frac(1, 2))
        /\ FracEq(results.risk_increase, Frac(-5, 100))

C5_Witness == C5_Scenario /\ results.propagation_steps = <<>>

\* C6: every entry of attack_path has time >= 0 and attack_path is in
\* non-decreasing order of time (and has as many entries as the timeline).
C6_AttackPathSorted ==
    pc = "done" =>
        /\ \A k \in 1..Len(results.attack_path) : results.attack_path[k].time >= 0
        /\ IsSorted(results.attack_path)
        /\ Len(results.attack_path) = Len(attack_timeline)

\* a run whose timeline was appended out of time order
C6_Witness ==
    /\ pc = "done"
    /\ ~IsSorted(results.compromise_timeline)
    /\ Len(results.attack_path) = 3

\* C7: propagation_rate equals affected_devices / total_devices and lies in
\* [0,1]; affected_devices never exceeds total_devices.
C7_PropagationRate ==
    pc = "done" =>
        /\ results.total_devices > 0 =>
              /\ results.propagation_rate.d # 0
              /\ FracEq(results.propagation_rate,
                        Frac(results.affected_devices, results.total_devices))
        /\ FracLeq(Zero, results.propagation_rate)
        /\ FracLeq(results.propagation_rate, One)
        /\ results.affected_devices <= results.total_devices

C7_Witness ==
    /\ pc = "done"
    /\ results.affected_devices = 2
    /\ results.total_devices = 3
    /\ results.propagation_steps # <<>>

\* C8: a call whose entry points all exist never fails and eventually returns.
ValidRun == pc \in {"entries", "loop", "neighbors"} /\ Range(entry_points) \subseteq Nodes

C8_Terminates ==
    /\ [](Range(entry_points) \subseteq Nodes => pc # "failed")
    /\ (ValidRun ~> pc = "done")

\* a run over the cycle A -> C -> A that compromised every device has returned
C8_Witness ==
    /\ pc = "done"
    /\ HasEdge("A", "C") /\ HasEdge("C", "A")
    /\ results.affected_devices = 3
    /\ dequeued = 3

\* C9: within one call _compromise_device is applied at most once to any device.
C9_CompromisedOnce ==
    \A d \in Names : calls[d] <= 1

\* C10: the number of entries ever enqueued, and the number of dequeue
\* iterations, is at most the number of devices.
C10_QueueBounded ==
    /\ enqueued <= Cardinality(Nodes)
    /\ dequeued <= Cardinality(Nodes)

StripTimestamp(record) == [record EXCEPT !.simulation_timestamp = 0]

BothReturned == call_no = 2 /\ pc = "done" /\ first.pc = "done"

\* C11 as stated: two calls on the same network and scenario that receive the
\* same random values return records that are identical in every field.
C11_IdenticalRecords ==
    BothReturned => results = first.results

\* C11 amended: the two records are identical in every field except
\* simulation_timestamp.
C11_IdenticalButTimestamp ==
    BothReturned => StripTimestamp(results) = StripTimestamp(first.results)

\* both calls made a successful and a failed attempt and were stamped differently
C11_Witness ==
    /\ BothReturned
    /\ Len(results.propagation_steps) >= 1
    /\ \E k \in 1..Len(tape) : tape[k].variation = NoVariation
    /\ results.simulation_timestamp # first.results.simulation_timestamp

\* the devices an attack that never fails a possible attempt ends up with: those
\* reached from the entry points along edges of positive weight into devices of
\* positive risk score
RECURSIVE Spread(_)
Spread(S) ==
    LET more == {t \in Nodes : /\ graph[t].risk_score > 0
                               /\ \E u \in S : HasEdge(u, t) /\ EdgeWeight(u, t) > 0}
    IN IF more \subseteq S THEN S ELSE Spread(S \cup more)

\* C12: when every draw is 0.0, every device reachable from an entry point along
\* edges of positive weight into devices of positive risk score is compromised;
\* for {A: 0.9, B: 0.1}, A -> B of weight 2.0, entry [A]: B is compromised,
\* affected_devices = 2, propagation_rate = 1.0 and attack_duration > 0.
C12_Network ==
    /\ network_config.devices = [d \in {"A", "B"} |-> IF d = "A" THEN 9 ELSE 1]
    /\ network_config.dependencies = <<[from |-> "A", to |-> "B", weight |-> 20]>>
    /\ entry_points = <<"A">>

C12_AllDrawsZero ==
    (pc = "done" /\ draws \subseteq {0}) =>
        /\ Spread(Range(entry_points)) \subseteq Compromised(results.device_states)
        /\ C12_Network =>
              /\ results.device_states["B"].compromised
              /\ results.affected_devices = 2
              /\ FracEq(results.propagation_rate, One)
              /\ results.attack_duration > 0

C12_Witness ==
    /\ pc = "done"
    /\ draws = {0}
    /\ C12_Network

\* a run with every draw 0.0 that stopped at the zero-risk device B
C12_ZeroRiskReached ==
    /\ pc = "done"
    /\ draws = {0}
    /\ graph["B"].risk_score = 0
    /\ HasEdge("A", "B") /\ HasEdge("B", "C") /\ ~HasEdge("A", "C")
    /\ entry_points = <<"A">>
    /\ results.affected_devices = 1

\* C13: _reset_simulation leaves every device uncompromised with no compromise
\* time and no source, in device_states and on the graph nodes, empties the
\* timeline, keeps the device set, the dependencies with their weights and the
\* risk scores, and a second reset right after it would produce the same
\* device_states, timeline and node attributes again.  A step that retires the
\* old dict and list is a step of _reset_simulation.
C13_ResetIdempotent ==
    [][Len(heap') > Len(heap) =>
          /\ \A d \in DOMAIN device_states' :
                /\ ~device_states'[d].compromised
                /\ device_states'[d].compromise_time = NoneTime
                /\ device_states'[d].attack_source = "None"
          /\ \A d \in DOMAIN graph' :
                /\ ~graph'[d].compromised
                /\ graph'[d].compromise_time = NoneTime
                /\ graph'[d].attack_vector = "None"
                /\ graph'[d].risk_score = graph[d].risk_score
          /\ attack_timeline' = <<>>
          /\ DOMAIN graph' = DOMAIN graph
          /\ DOMAIN device_states' = DOMAIN graph
          /\ network_config' = network_config
          /\ InitializeDeviceStates(graph') = device_states'
          /\ ResetGraph(graph') = graph']_vars

\* one call that compromised a device, then two resets in a row
C13_Witness ==
    /\ pc = "done"
    /\ call_no = 1
    /\ Len(heap) >= 3
    /\ Compromised(heap[2].device_states) # {}
    /\ Compromised(heap[3].device_states) = {}
    /\ Compromised(device_states) = {}

C15_RecordNotMutated ==
    /\ results # NoneResults => Deref(results, results_gen) = results
    /\ (first # NoOutcome /\ first.results # NoneResults) =>
          Deref(first.results, first.results_gen) = first.results

\* the second call is under way, has compromised a device, and the record of
\* the first call differs from the simulator's current timeline
C15_Witness ==
    /\ call_no = 2
    /\ pc = "loop"
    /\ results # NoneResults
    /\ attack_timeline # <<>>
    /\ results.compromise_timeline # attack_timeline

BothEnded == call_no = 2 /\ pc \in {"done", "failed"}

\* C16 as stated: a call with a callback and a call without one, on the same
\* network and scenario with the same random values, end the same way (both
\* return or both fail with the same error), leave the same devices compromised
\* at the same times and return the same record.
C16_CallbackObservational ==
    (BothEnded /\ callback # first.callback) =>
        /\ pc = first.pc
        /\ error = first.error
        /\ device_states = first.device_states
        /\ attack_timeline = first.attack_timeline
        /\ pc = "done" => results = first.results

\* C16 amended: for a scenario that carries its description, the two calls end
\* the same way, leave the same devices compromised at the same times, and
\* return records that are identical except for simulation_timestamp.
C16_ObservationalWithDescription ==
    (BothEnded /\ description /\ callback # first.callback) =>
        /\ pc = first.pc
        /\ error = first.error
        /\ device_states = first.device_states
        /\ graph = first.graph
        /\ attack_timeline = first.attack_timeline
        /\ pc = "done" => StripTimestamp(results) = StripTimestamp(first.results)

\* the first call ran without a callback, the second with one that received
\* the messages of a propagation, and both returned
C16_Witness ==
    /\ BothEnded
    /\ pc = "done"
    /\ description
    /\ callback
    /\ ~first.callback
    /\ Len(results.propagation_steps) >= 1
    /\ \E k \in 1..Len(log) : log[k].event = "Propagation"

\* a scenario without description: the call without a callback returned, the
\* call with one failed
C16_FailureByCallback ==
    /\ BothEnded
    /\ ~description
    /\ callback
    /\ pc = "failed"
    /\ first.pc = "done"

\* a dependency names a device that is not in the device map, or a risk score
\* lies outside [0,1]
InvalidConfig(cfg) ==
    \/ \E k \in 1..Len(cfg.dependencies) :
          \/ cfg.dependencies[k].from \notin DOMAIN cfg.devices
          \/ cfg.dependencies[k].to \notin DOMAIN cfg.devices
    \/ \E d \in DOMAIN cfg.devices : cfg.devices[d] < 0 \/ cfg.devices[d] > 10

\* C17: construction from a definition with a dangling dependency or a risk
\* score outside [0,1] fails with ConfigurationError, so no simulator is ever
\* produced from it.
C17_ConfigurationError ==
    (pc # "new" /\ InvalidConfig(network_config)) =>
        /\ pc = "failed"
        /\ error = "ConfigurationError"

\* the draws that are at least 0.95
HighDraws == {d \in Draws : d >= 95}

\* C19: when every draw of a call was at least 0.95, the compromised devices
\* are exactly the entry points, propagation_steps is empty and attack_duration
\* is 0.
C19_AllDrawsFail ==
    (pc = "done" /\ draws \subseteq HighDraws) =>
        /\ Compromised(results.device_states) = Range(entry_points)
        /\ results.propagation_steps = <<>>
        /\ results.attack_duration = 0

\* a call that attempted an edge whose probability is at the cap and drew high
C19_Witness ==
    /\ pc = "done"
    /\ draws # {}
    /\ draws \subseteq HighDraws
    /\ \E s \in Range(entry_points), t \in Nodes :
          /\ HasEdge(s, t)
          /\ t \notin Range(entry_points)
          /\ EdgeWeight(s, t) >= 20
          /\ graph[t].risk_score = 9

\* a step in which the call made an attempt whose draw was not below the
\* success probability
FailedAttempt ==
    /\ Len(tape') > Len(tape)
    /\ ~DrawSucceeds(tape'[Len(tape')].draw,
                     CalculateAttackProbability(current.device, Head(neighbors), current.time))

\* C20: an attempt whose draw is not below the success probability leaves
\* device_states, the graph node attributes, the timeline, the work queue and
\* propagation_steps as they were, and the callback receives nothing.
C20_FailedAttemptChangesNothing ==
    [][FailedAttempt =>
          UNCHANGED <<device_states, graph, attack_timeline, attack_queue,
                      propagation_steps, log>>]_vars

\* a failed attempt has been made by a call that has a callback and that has
\* compromised more than its entry points
C20_Witness ==
    /\ pc \in {"loop", "neighbors"}
    /\ callback
    /\ propagation_steps # <<>>
    /\ \E k \in 1..Len(tape) : tape[k].variation = NoVariation

\* the devices that can be reached from a set of devices along the dependencies
RECURSIVE Reach(_)
Reach(S) ==
    LET more == {t \in Nodes : \E u \in S : HasEdge(u, t)}
    IN IF more \subseteq S THEN S ELSE Reach(S \cup more)

\* what every record returned by a call that runs alone satisfies: its entry
\* points are compromised, and every compromised device can be reached from them
SoloConsistent(record, entries) ==
    /\ Range(entries) \subseteq Compromised(record.device_states)
    /\ Compromised(record.device_states) \subseteq Reach(Range(entries))

\* C18: with two threads on one simulator, a record that no call running alone
\* could return (an entry point of the call not compromised, or a device
\* compromised that cannot be reached from its entry points) is returned only
\* by a call that was interrupted by the other thread; C18_Witness shows that
\* such a record is returned.
C18_OnlyInterleavedCallsDiverge ==
    /\ (pc = "done" /\ ~other.preempted[other.running]) =>
          SoloConsistent(results, entry_points)
    /\ (other.frame.pc = "done" /\ ~other.preempted[3 - other.running]) =>
          SoloConsistent(other.frame.results, other.frame.entry_points)

\* a call returned a record in which a device it compromised is missing and a
\* device that cannot be reached from its entry points is compromised
C18_Witness ==
    /\ pc = "done"
    /\ other.preempted[other.running]
    /\ \E d \in Range(entry_points) :
          calls[d] > 0 /\ d \notin Compromised(results.device_states)
    /\ \E d \in Compromised(results.device_states) : d \notin Reach(Range(entry_points))

\* C21: a step that is not a reset leaves the compromised flag, the compromise
\* time and the attack source of every compromised device as they are, and
\* when the call returns every entry point has compromise time 0 and source
\* "Initial Attack".
C21_CompromisedStaysAsIs ==
    [][/\ Len(heap') = Len(heap) =>
             \A d \in DOMAIN device_states :
                device_states[d].compromised =>
                   /\ device_states'[d].compromised
                   /\ device_states'[d].compromise_time = device_states[d].compromise_time
                   /\ device_states'[d].attack_source = device_states[d].attack_source
       /\ (pc # "done" /\ pc' = "done") =>
             \A k \in 1..Len(entry_points') :
                /\ device_states'[entry_points'[k]].compromised
                /\ device_states'[entry_points'[k]].compromise_time = 0
                /\ device_states'[entry_points'[k]].attack_source = "Initial Attack"]_vars

\* the second call on the simulator returned; one of its entry points is the
\* successor of another and was skipped as a neighbor
C21_Witness ==
    /\ pc = "done"
    /\ call_no = 2
    /\ \E s, t \in Range(entry_points) : s # t /\ HasEdge(s, t)
    /\ Compromised(first.device_states) # {}

\* the attempts of the call on the edge from s to t, and against the target t
AttemptsOn(s, t) == Cardinality({k \in 1..Len(tape) : tape[k].source = s /\ tape[k].target = t})
AttemptsAgainst(t) == Cardinality({k \in 1..Len(tape) : tape[k].target = t})
Edges == {e \in Nodes \X Nodes : HasEdge(e[1], e[2])}

\* C22: within one call every edge is attempted at most once, so a target is
\* attempted at most as often as it has predecessors and the call makes at most
\* as many attempts as the graph has edges.
C22_EdgeAttemptedOnce ==
    /\ \A s, t \in Nodes : AttemptsOn(s, t) <= 1
    /\ \A t \in Nodes : AttemptsAgainst(t) <= Cardinality(Predecessors(t))
    /\ Len(tape) <= Cardinality(Edges)

\* the same, for calls whose entry points are pairwise distinct
C22_DistinctEntries ==
    Cardinality(Range(entry_points)) = Len(entry_points) => C22_EdgeAttemptedOnce

\* C23: when a propagation step is recorded its source is compromised, its
\* time is the compromise time of the source plus at least one second, the
\* target was not compromised before and gets the time of the step, and every
\* device compromised by lateral movement has a compromise time of at least
\* one second.
C23_StepsRespectCausality ==
    [][/\ Len(propagation_steps') > Len(propagation_steps) =>
             LET step == propagation_steps'[Len(propagation_steps')]
             IN /\ device_states[step.source].compromised
                /\ step.time >= device_states[step.source].compromise_time + 1000
                /\ ~device_states[step.target].compromised
                /\ device_states'[step.target].compromise_time = step.time
                /\ device_states'[step.target].compromise_time >
                      device_states'[step.source].compromise_time
       /\ \A d \in DOMAIN device_states' :
             (device_states'[d].compromised
                 /\ device_states'[d].attack_source # "Initial Attack") =>
                device_states'[d].compromise_time >= 1000]_vars

\* two steps in a chain, the second over an edge whose computed delay is below
\* one second
C23_Witness ==
    /\ Len(propagation_steps) >= 2
    /\ propagation_steps[2].source = propagation_steps[1].target
    /\ propagation_steps[2].time = propagation_steps[1].time + 1000

\* the devices in the order in which the call compromised them: the entry
\* points in scenario order at time 0, then the targets of the propagation
\* steps in the order of the steps
CompromiseOrder ==
    [k \in 1..Len(entry_points) |-> [device |-> entry_points[k], time |-> 0]]
    \o [k \in 1..Len(propagation_steps) |->
           [device |-> propagation_steps[k].target, time |-> propagation_steps[k].time]]

\* C24: the device being processed is the one at position dequeued of the
\* compromise order, and the queue holds the rest of that order: the entry
\* points leave the queue first, in scenario order, and the laterally
\* compromised devices in the order of propagation_steps.
C24_FifoOrder ==
    pc \in {"loop", "neighbors"} =>
        /\ dequeued <= Len(CompromiseOrder)
        /\ attack_queue = SubSeq(CompromiseOrder, dequeued + 1, Len(CompromiseOrder))
        /\ dequeued > 0 => current = CompromiseOrder[dequeued]

\* both laterally compromised devices have been dequeued, the one with the
\* later compromise time first
C24_Witness ==
    /\ pc \in {"loop", "neighbors"}
    /\ Len(propagation_steps) >= 2
    /\ propagation_steps[1].time > propagation_steps[2].time
    /\ dequeued = Len(CompromiseOrder)

\* the largest compromise time of the compromised devices, 0 when there is none
MaxCompromiseTime(states) ==
    IF Compromised(states) = {} THEN 0
    ELSE CHOOSE t \in {states[d].compromise_time : d \in Compromised(states)} :
            \A d \in Compromised(states) : states[d].compromise_time <= t

\* C25: attack_duration of a returned record is the largest compromise time of
\* the compromised devices; it is 0 exactly when no device other than the entry
\* points is compromised, and at least one second when a lateral movement
\* succeeded.
C25_AttackDuration ==
    pc = "done" =>
        /\ results.attack_duration = MaxCompromiseTime(results.device_states)
        /\ results.attack_duration = 0 <=>
              Compromised(results.device_states) \subseteq Range(entry_points)
        /\ results.propagation_steps # <<>> => results.attack_duration >= 1000

\* the record of a call whose last compromise is not its latest
C25_Witness ==
    /\ pc = "done"
    /\ Len(results.propagation_steps) >= 2
    /\ results.attack_duration >
          results.compromise_timeline[Len(results.compromise_timeline)].time

\* a step in which the call made an attempt
Attempt == Len(tape') > Len(tape)

\* C26: the success probability evaluated for an attempt is at least 0 and at
\* most 0.95, and an attempt whose draw is 0.95 or more compromises nothing
\* and records no step.
C26_ProbabilityRange ==
    [][Attempt =>
          LET success_prob == CalculateAttackProbability(current.device, Head(neighbors),
                                                         current.time)
          IN /\ 0 <= success_prob
             /\ success_prob <= ProbabilityCap
             /\ tape'[Len(tape')].draw >= 95 =>
                   /\ device_states' = device_states
                   /\ propagation_steps' = propagation_steps]_vars

\* the call attempted an edge whose probability is 0, succeeded on one whose
\* probability is 0.95, and made a draw of 0.99
C26_Witness ==
    /\ \E k \in 1..Len(propagation_steps) :
          propagation_steps[k].success_probability = ProbabilityCap
    /\ \E k \in 1..Len(tape) : graph[tape[k].target].risk_score = 0
    /\ \E k \in 1..Len(tape) : tape[k].draw = 99

\* the devices with a risk score above 0.7
RiskAbove07 == {d \in Nodes : graph[d].risk_score > 7}

\* C27: in a returned record critical_devices_compromised lists exactly the
\* compromised devices with risk score above 0.7, and when there is a device
\* with risk score above 0.7 the resilience score is the number of such devices
\* that are not compromised over the number of all such devices, which is 1
\* minus the number of critical devices compromised over that number.
C27_CriticalAndResilience ==
    pc = "done" =>
        LET critical == Range(results.critical_devices_compromised)
        IN /\ critical = Compromised(results.device_states) \cap RiskAbove07
           /\ Len(results.critical_devices_compromised) = Cardinality(critical)
           /\ RiskAbove07 # {} =>
                 /\ results.network_resilience_score =
                       Frac(Cardinality(RiskAbove07 \ Compromised(results.device_states)),
                            Cardinality(RiskAbove07))
                 /\ FracEq(results.network_resilience_score,
                           FracSub(One, Frac(Cardinality(critical),
                                             Cardinality(RiskAbove07))))

\* a record with a compromised device above 0.7 and a compromised device of
\* risk score 0.7
C27_Witness ==
    /\ pc = "done"
    /\ RiskAbove07 \cap Compromised(results.device_states) # {}
    /\ \E d \in Compromised(results.device_states) : graph[d].risk_score = 7

\* a record with a compromised and an uncompromised device above 0.7
C27_PartlyResilient ==
    /\ pc = "done"
    /\ RiskAbove07 \cap Compromised(results.device_states) # {}
    /\ RiskAbove07 \ Compromised(results.device_states) # {}

\* C28: in every state the graph has a node for exactly the devices of
\* device_states, and the compromised flag, the compromise time and the attack
\* vector of each node equal the flag, the time and the attack source of the
\* device in device_states.
C28_BookkeepingInSync ==
    /\ DOMAIN graph = DOMAIN device_states
    /\ \A d \in DOMAIN graph :
          /\ graph[d].compromised = device_states[d].compromised
          /\ graph[d].compromise_time = device_states[d].compromise_time
          /\ graph[d].attack_vector = device_states[d].attack_source

\* the second call, made after a call and a reset on its own, has compromised a
\* device by lateral movement
C28_Witness ==
    /\ call_no = 2
    /\ Len(heap) >= 3
    /\ Compromised(first.device_states) # {}
    /\ \E d \in Compromised(device_states) : device_states[d].compromise_time > 0

DistinctEntries == Cardinality(Range(entry_points)) = Len(entry_points)

\* C29: in the record of a call with pairwise distinct, existing entry points
\* the devices of the timeline are exactly the compromised devices, every
\* timeline entry has the compromise time of its device, propagation_steps has
\* affected_devices minus the number of entry points entries, no two steps have
\* the same target, and no step has an entry point as its target.
C29_ResultBookkeeping ==
    (pc = "done" /\ DistinctEntries /\ Range(entry_points) \subseteq Nodes) =>
        LET timeline == results.compromise_timeline
            steps == results.propagation_steps
        IN /\ {timeline[k].device : k \in 1..Len(timeline)} =
                 Compromised(results.device_states)
           /\ \A k \in 1..Len(timeline) :
                 timeline[k].time = results.device_states[timeline[k].device].compromise_time
           /\ Len(steps) = results.affected_devices - Len(entry_points)
           /\ \A j, k \in 1..Len(steps) : j # k => steps[j].target # steps[k].target
           /\ \A k \in 1..Len(steps) : steps[k].target \notin Range(entry_points)

\* a record with two entry points and a propagation step
C29_Witness ==
    /\ pc = "done"
    /\ DistinctEntries
    /\ Len(entry_points) = 2
    /\ results.propagation_steps # <<>>

\* the devices reached from a set of devices along recorded propagation steps
RECURSIVE StepReach(_)
StepReach(S) ==
    LET more == {propagation_steps[k].target : k \in
                    {j \in 1..Len(propagation_steps) : propagation_steps[j].source \in S}}
    IN IF more \subseteq S THEN S ELSE StepReach(S \cup more)

\* C30: every recorded propagation step goes along an edge of the graph, every
\* compromised device is an entry point or is reached from an entry point along
\* recorded steps, and a device without a directed path from an entry point is
\* not compromised.
C30_CompromisedAlongSteps ==
    /\ \A k \in 1..Len(propagation_steps) :
          HasEdge(propagation_steps[k].source, propagation_steps[k].target)
    /\ Compromised(device_states) \subseteq StepReach(Range(entry_points))
    /\ Compromised(device_states) \subseteq Reach(Range(entry_points))

\* the call returned after a lateral movement, and a device that has an edge to
\* an entry point but no path from one is not compromised
C30_Witness ==
    /\ pc = "done"
    /\ propagation_steps # <<>>
    /\ \E d \in Nodes \ Reach(Range(entry_points)) :
          \E e \in Range(entry_points) : HasEdge(d, e)

\* C31: at every attempt the attacking device is compromised and is a
\* predecessor of the target, so the target has at least one compromised
\* predecessor and the network effect is at least 1.2 (6 fifths).
C31_NetworkEffectAtLeast12 ==
    [][Attempt =>
          /\ device_states[current.device].compromised
          /\ current.device \in Predecessors(Head(neighbors))
          /\ CompromisedNeighbors(Head(neighbors)) >= 1
          /\ NetworkEffect(Head(neighbors)) >= 6]_vars

\* after an earlier attempt the call is about to attempt a target that has two
\* compromised predecessors
C31_Witness ==
    /\ pc = "neighbors"
    /\ tape # <<>>
    /\ ~AlreadyCompromised(device_states, Head(neighbors))
    /\ CompromisedNeighbors(Head(neighbors)) = 2
====
